---- MODULE Spec2Model ----
(***************************************************************************)
(* Placement-data extraction of kikit.fab.common: the correction table,    *)
(* the per-footprint compensation, the geometry transform and              *)
(* collectPosData.                                                         *)
(*                                                                         *)
(* Conventions of the model                                                *)
(*   - a Python string is a sequence of one-character strings;             *)
(*   - None is <<>> and a present value v is <<v>>;                        *)
(*   - a call returns Ok(v) or Raise(exception);                           *)
(*   - millimetres are integers, board units are 1/1000000 mm;             *)
(*   - degrees are kept in tenths (900 is 90.0 degrees), the unit of       *)
(*     footprint.GetOrientation().                                         *)
(***************************************************************************)
EXTENDS Integers, Sequences, FiniteSets, TLC

VARIABLES
    pc,               \* "start" | "done": position of the one call in progress
    op,               \* which function is being called
    board,            \* [footprints, auxOrigin]
    correctionFields, \* ordered list of field names
    posFilter,        \* the references the caller's predicate accepts
    bom,              \* None or <<list of BOM entries>>
    correctionFile,   \* None or <<[has_header, rows]>>
    compensation,     \* argument of the geometry functions
    result            \* what the call returned or raised

vars == <<pc, op, board, correctionFields, posFilter, bom, correctionFile,
          compensation, result>>

(***************************************************************************)
(* Bounds                                                                  *)
(***************************************************************************)
MaxFootprints == 2
MaxBom == 2
MaxRows == 2
MaxOrient == 3700
MaxQuarterTurns == 5
MaxOffset == 2

(***************************************************************************)
(* Python values                                                           *)
(***************************************************************************)
None == <<>>
Some(v) == <<v>>

NoExc == [type |-> "", designator |-> "", value |-> <<>>]
Ok(v) == [ok |-> TRUE, val |-> v, exc |-> NoExc]
Raise(e) == [ok |-> FALSE, val |-> <<>>, exc |-> e]

Digits == {"0", "1", "2", "3", "4", "5", "6", "7", "8", "9"}

DigitVal(c) ==
    CASE c = "0" -> 0 [] c = "1" -> 1 [] c = "2" -> 2 [] c = "3" -> 3
      [] c = "4" -> 4 [] c = "5" -> 5 [] c = "6" -> 6 [] c = "7" -> 7
      [] c = "8" -> 8 [] c = "9" -> 9

RECURSIVE Nat10(_)
Nat10(ds) ==
    IF ds = <<>> THEN 0
    ELSE 10 * Nat10(SubSeq(ds, 1, Len(ds) - 1)) + DigitVal(ds[Len(ds)])

\* float(s) over the alphabet of the model (digits, "-", ";", "x"): the
\* strings it accepts are an optional sign followed by one or more digits.
isFloat(s) ==
    LET body == IF s # <<>> /\ Head(s) = "-" THEN Tail(s) ELSE s
    IN  body # <<>> /\ \A i \in 1..Len(body) : body[i] \in Digits

float(s) ==
    IF ~isFloat(s)
    THEN Raise([type |-> "ValueError", designator |-> "", value |-> s])
    ELSE Ok(IF Head(s) = "-" THEN 0 - Nat10(Tail(s)) ELSE Nat10(s))

\* str.split(sep)
RECURSIVE split(_, _)
split(s, sep) ==
    IF \E i \in 1..Len(s) : s[i] = sep
    THEN LET i == CHOOSE k \in 1..Len(s) :
                      s[k] = sep /\ \A j \in 1..(k - 1) : s[j] # sep
         IN  <<SubSeq(s, 1, i - 1)>> \o split(SubSeq(s, i + 1, Len(s)), sep)
    ELSE <<s>>

\* [float(x) for x in xs]: the first element that does not convert raises
RECURSIVE floatAll(_)
floatAll(xs) ==
    IF xs = <<>> THEN Ok(<<>>)
    ELSE LET h == float(Head(xs))
         IN  IF ~h.ok THEN h
             ELSE LET t == floatAll(Tail(xs))
                  IN  IF ~t.ok THEN t ELSE Ok(<<h.val>> \o t.val)

\* a % b of Python for b > 0: the result has the sign of b
PyModTrunc(a, b) == IF a >= 0 THEN a % b ELSE 0 - ((0 - a) % b)
PyMod(a, b) == a - b * (a \div b)

(***************************************************************************)
(* pcbnew and kikit.common                                                 *)
(***************************************************************************)
F_Cu == "F.Cu"
B_Cu == "B.Cu"
In1_Cu == "In1.Cu"

fromMm(mm) == mm * 1000000
toMm(iu) == iu \div 1000000

\* cos and sin of a whole number of quarter turns, the angle in degrees
cosDeg(a) ==
    CASE PyMod(a, 360) = 0 -> 1 [] PyMod(a, 360) = 90 -> 0
      [] PyMod(a, 360) = 180 -> -1 [] PyMod(a, 360) = 270 -> 0
sinDeg(a) ==
    CASE PyMod(a, 360) = 0 -> 0 [] PyMod(a, 360) = 90 -> 1
      [] PyMod(a, 360) = 180 -> 0 [] PyMod(a, 360) = 270 -> -1

\* kikit.eeshema.getField: the value of the named field, None without it
getField(component, field) ==
    IF field \in DOMAIN component.fields
    THEN Some(component.fields[field]) ELSE None

(***************************************************************************)
(* kikit/fab/common.py                                                     *)
(***************************************************************************)
layerToSideAll(layer) ==
    IF layer = F_Cu THEN Ok("T") ELSE Ok("B")
layerToSide(layer) ==
    IF layer = F_Cu THEN Ok("T")
    ELSE IF layer = B_Cu THEN Ok("B")
    ELSE Raise([type |-> "RuntimeError", designator |-> "", value |-> <<>>])

footprintPositionBoardFrame(footprint, placeOffset, comp) ==
    <<footprint.pos[1] - placeOffset[1] + fromMm(comp[1]),
      footprint.pos[2] - placeOffset[2] + fromMm(comp[2])>>
footprintPosition(footprint, placeOffset, comp) ==
    LET angle == 0 - (footprint.orient \div 10)
        x == comp[1] * cosDeg(angle) - comp[2] * sinDeg(angle)
        y == comp[1] * sinDeg(angle) + comp[2] * cosDeg(angle)
    IN  <<footprint.pos[1] - placeOffset[1] + fromMm(x),
          footprint.pos[2] - placeOffset[2] + fromMm(y)>>

footprintOrientationTrunc(footprint, comp) ==
    PyModTrunc(footprint.orient + 10 * comp[3], 3600)
footprintOrientation(footprint, comp) ==
    PyMod(footprint.orient + 10 * comp[3], 3600)

parseCompensation(s) ==
    LET comps == floatAll(split(s, ";"))
    IN  IF ~comps.ok THEN comps
        ELSE IF Len(comps.val) # 3
        THEN Raise([type |-> "FormatError", designator |-> "", value |-> s])
        ELSE comps

defaultFootprintX(footprint, placeOffset, comp) ==
    toMm(footprintPosition(footprint, placeOffset, comp)[1])

defaultFootprintY(footprint, placeOffset, comp) ==
    0 - toMm(footprintPosition(footprint, placeOffset, comp)[2])

\* re.Pattern.match for a pattern of literal characters and ".": the
\* pattern is matched at the start of the string, the rest is free
reMatch(pattern, s) ==
    /\ Len(pattern) <= Len(s)
    /\ \A i \in 1..Len(pattern) : pattern[i] = "." \/ pattern[i] = s[i]

IndexError == [type |-> "IndexError", designator |-> "", value |-> <<>>]

\* one CorrectionPattern(re.compile(row[0]), re.compile(row[1]),
\* float(row[2]), float(row[3]), float(row[4])), arguments left to right
readRow(row) ==
    IF Len(row) < 3 THEN Raise(IndexError)
    ELSE LET x == float(row[3])
         IN  IF ~x.ok THEN x
             ELSE IF Len(row) < 4 THEN Raise(IndexError)
             ELSE LET y == float(row[4])
                  IN  IF ~y.ok THEN y
                      ELSE IF Len(row) < 5 THEN Raise(IndexError)
                      ELSE LET r == float(row[5])
                           IN  IF ~r.ok THEN r
                               ELSE Ok([footprint |-> row[1],
                                        part_id |-> row[2],
                                        x_correction |-> x.val,
                                        y_correction |-> y.val,
                                        rotation |-> r.val])

RECURSIVE readRows(_)
readRows(rows) ==
    IF rows = <<>> THEN Ok(<<>>)
    ELSE LET h == readRow(Head(rows))
         IN  IF ~h.ok THEN h
             ELSE LET t == readRows(Tail(rows))
                  IN  IF ~t.ok THEN t ELSE Ok(<<h.val>> \o t.val)

\* file is what csv.reader and csv.Sniffer make of the file: its rows and
\* the sniffer's verdict on a header
readCorrectionPatterns(file) ==
    readRows(IF file.has_header /\ file.rows # <<>>
             THEN Tail(file.rows) ELSE file.rows)

RECURSIVE applyCorrectionPatternLast(_, _)
applyCorrectionPatternLast(correctionPatterns, footprint) ==
    IF correctionPatterns = <<>> THEN <<0, 0, 0>>
    ELSE LET corpat == correctionPatterns[Len(correctionPatterns)]
         IN  IF reMatch(corpat.footprint, footprint.libId)
             THEN <<corpat.x_correction, corpat.y_correction, corpat.rotation>>
             ELSE applyCorrectionPatternLast(
                      SubSeq(correctionPatterns, 1, Len(correctionPatterns) - 1),
                      footprint)

RECURSIVE applyCorrectionPattern(_, _)
applyCorrectionPattern(correctionPatterns, footprint) ==
    IF correctionPatterns = <<>> THEN <<0, 0, 0>>
    ELSE LET corpat == Head(correctionPatterns)
         IN  IF reMatch(corpat.footprint, footprint.libId)
             THEN <<corpat.x_correction, corpat.y_correction, corpat.rotation>>
             ELSE applyCorrectionPattern(Tail(correctionPatterns), footprint)

\* bom = { comp["reference"]: comp for comp in bom }: a later entry
\* replaces an earlier one of the same reference
bomDict(b) ==
    IF b = None THEN [r \in {} |-> None]
    ELSE LET comps == b[1]
         IN  [r \in {comps[i].reference : i \in 1..Len(comps)} |->
                 comps[CHOOSE i \in 1..Len(comps) :
                           /\ comps[i].reference = r
                           /\ \A j \in (i + 1)..Len(comps) :
                                  comps[j].reference # r]]

\* the loop over correctionFields: field is what the last getField
\* returned, and the loop stops at the first field that is not None
RECURSIVE scanFieldsNonEmpty(_, _)
scanFieldsNonEmpty(component, fieldNames) ==
    IF fieldNames = <<>> THEN None
    ELSE LET field == getField(component, Head(fieldNames))
         IN  IF field # None /\ field # Some(<<>>) THEN field
             ELSE scanFieldsNonEmpty(component, Tail(fieldNames))

RECURSIVE scanFields(_, _)
scanFields(component, fieldNames) ==
    IF fieldNames = <<>> THEN None
    ELSE LET field == getField(component, Head(fieldNames))
         IN  IF field # None THEN field
             ELSE scanFields(component, Tail(fieldNames))

getCompensationPatternFirst(bomd, fieldNames, correctionPatterns, footprint) ==
    IF footprint.ref \notin DOMAIN bomd THEN Ok(<<0, 0, 0>>)
    ELSE LET field == scanFields(bomd[footprint.ref], fieldNames)
             pat == applyCorrectionPattern(correctionPatterns, footprint)
         IN  IF field = None \/ field = Some(<<>>) \/ pat # <<0, 0, 0>>
             THEN Ok(pat)
             ELSE LET c == parseCompensation(field[1])
                  IN  IF ~c.ok /\ c.exc.type = "FormatError"
                      THEN Raise([c.exc EXCEPT !.designator = footprint.ref])
                      ELSE c

getCompensation(bomd, fieldNames, correctionPatterns, footprint) ==
    IF footprint.ref \notin DOMAIN bomd THEN Ok(<<0, 0, 0>>)
    ELSE LET field == scanFields(bomd[footprint.ref], fieldNames)
         IN  IF field = None \/ field = Some(<<>>)
             THEN Ok(applyCorrectionPattern(correctionPatterns, footprint))
             ELSE LET c == parseCompensation(field[1])
                  IN  IF ~c.ok /\ c.exc.type = "FormatError"
                      THEN Raise([c.exc EXCEPT !.designator = footprint.ref])
                      ELSE c

\* the loop over board.GetFootprints(): does the footprint go on the list
retainedNoVirtualTest(bomd, accepted, footprint) ==
    /\ ~(DOMAIN bomd # {} /\ footprint.ref \notin DOMAIN bomd)
    /\ footprint.ref \in accepted /\ footprint.ref \in DOMAIN bomd
retained(bomd, accepted, footprint) ==
    /\ ~(DOMAIN bomd # {} /\ footprint.ref \notin DOMAIN bomd)
    /\ ~footprint.virtual
    /\ footprint.ref \in accepted /\ footprint.ref \in DOMAIN bomd

\* one tuple of the returned list, its elements evaluated left to right
posRecord(bomd, fieldNames, correctionPatterns, placeOffset, footprint) ==
    LET c == getCompensation(bomd, fieldNames, correctionPatterns, footprint)
    IN  IF ~c.ok THEN c
        ELSE LET side == layerToSide(footprint.layer)
             IN  IF ~side.ok THEN side
                 ELSE Ok([ref |-> footprint.ref,
                          x |-> defaultFootprintX(footprint, placeOffset, c.val),
                          y |-> defaultFootprintY(footprint, placeOffset, c.val),
                          side |-> side.val,
                          rot |-> footprintOrientation(footprint, c.val)])

RECURSIVE posRecords(_, _, _, _, _)
posRecords(bomd, fieldNames, correctionPatterns, placeOffset, footprints) ==
    IF footprints = <<>> THEN Ok(<<>>)
    ELSE LET h == posRecord(bomd, fieldNames, correctionPatterns, placeOffset,
                            Head(footprints))
         IN  IF ~h.ok THEN h
             ELSE LET t == posRecords(bomd, fieldNames, correctionPatterns,
                                      placeOffset, Tail(footprints))
                  IN  IF ~t.ok THEN t ELSE Ok(<<h.val>> \o t.val)

collectPosData(brd, fieldNames, accepted, b, file) ==
    LET bomd == bomDict(b)
        cp == IF file = None THEN Ok(<<>>) ELSE readCorrectionPatterns(file[1])
    IN  IF ~cp.ok THEN cp
        ELSE posRecords(bomd, fieldNames, cp.val, brd.auxOrigin,
                        SelectSeq(brd.footprints,
                                  LAMBDA f : retained(bomd, accepted, f)))

(***************************************************************************)
(* Inputs                                                                  *)
(***************************************************************************)
SeqsUpTo(S, n) == UNION {[1..k -> S] : k \in 0..n}

Refs == {"R1", "R2"}
JLCPCB_CORRECTION == "JLCPCB_CORRECTION"
PCBWAY_CORRECTION == "PCBWAY_CORRECTION"

LibR == <<"R", ":", "4">>
LibC == <<"C", ":", "6">>

Good123 == <<"1", ";", "2", ";", "3">>
GoodNeg == <<"-", "2", ";", "0", ";", "9", "0">>
Good456 == <<"4", ";", "5", ";", "6">>
TwoParts == <<"1", ";", "2">>
NotANumber == <<"1", ";", "x", ";", "3">>

Footprint(ref, lib, layer, virtual) ==
    [ref |-> ref, pos |-> <<fromMm(10), fromMm(5)>>, orient |-> 900,
     layer |-> layer, libId |-> lib, virtual |-> virtual]

Boards(footprints) ==
    {[footprints |-> fs, auxOrigin |-> <<fromMm(1), fromMm(2)>>] :
        fs \in SeqsUpTo(footprints, MaxFootprints)}

PatternFile ==
    [has_header |-> TRUE,
     rows |-> << <<"f", "p", "x", "y", "r">>,
                 << <<"R">>, <<".">>, <<"5">>, <<"-", "6">>, <<"7">> >> >>]

(***************************************************************************)
(* Spec: collectPosData over boards of virtual and real footprints on any  *)
(* layer, with or without a BOM                                            *)
(***************************************************************************)
Init ==
    /\ pc = "start"
    /\ op = "collectPosData"
    /\ board \in Boards({Footprint(r, LibR, l, v) :
                            r \in Refs, l \in {F_Cu, B_Cu, In1_Cu},
                            v \in BOOLEAN})
    /\ correctionFields = <<JLCPCB_CORRECTION>>
    /\ posFilter \in {Refs, {"R1"}}
    /\ bom \in {None} \cup
           {Some(b) : b \in SeqsUpTo(
               {[reference |-> r, fields |-> f] :
                   r \in Refs,
                   f \in {<<>>} \cup [{JLCPCB_CORRECTION} -> {TwoParts}]},
               MaxBom)}
    /\ correctionFile = None
    /\ compensation = <<0, 0, 0>>
    /\ result = Ok(<<>>)

CollectPosData ==
    /\ pc = "start"
    /\ op = "collectPosData"
    /\ result' = collectPosData(board, correctionFields, posFilter, bom,
                                correctionFile)
    /\ pc' = "done"
    /\ UNCHANGED <<op, board, correctionFields, posFilter, bom,
                   correctionFile, compensation>>

Next == CollectPosData

Spec == Init /\ [][Next]_vars

(***************************************************************************)
(* SpecResolve: collectPosData over a complete BOM whose entries carry     *)
(* correction fields, with and without a correction table                  *)
(***************************************************************************)
InitResolve ==
    /\ pc = "start"
    /\ op = "collectPosData"
    /\ board \in Boards({Footprint(r, l, F_Cu, FALSE) :
                            r \in Refs, l \in {LibR, LibC}})
    /\ correctionFields \in {<<>>, <<JLCPCB_CORRECTION>>,
                             <<JLCPCB_CORRECTION, PCBWAY_CORRECTION>>,
                             <<PCBWAY_CORRECTION, JLCPCB_CORRECTION>>}
    /\ posFilter = Refs
    /\ bom \in {Some(<<[reference |-> "R1", fields |-> f1],
                       [reference |-> "R2", fields |-> f2]>>) :
                   f1 \in UNION {[S -> {<<>>, Good123, Good456, TwoParts,
                                        NotANumber}] :
                                    S \in SUBSET {JLCPCB_CORRECTION,
                                                  PCBWAY_CORRECTION}},
                   f2 \in {<<>>} \cup
                          [{JLCPCB_CORRECTION} -> {GoodNeg, TwoParts}]}
    /\ correctionFile \in {None, Some(PatternFile)}
    /\ compensation = <<0, 0, 0>>
    /\ result = Ok(<<>>)

SpecResolve == InitResolve /\ [][Next]_vars

(***************************************************************************)
(* SpecRead: readCorrectionPatterns over files of well-formed, short,      *)
(* long and non-numeric rows, then applyCorrectionPattern on the table     *)
(***************************************************************************)
Row(re, x) == <<re, <<".">>, x, <<"-", "2">>, <<"9">> >>

Rows ==
    LET full == {Row(re, x) : re \in {<<"R">>, <<".">>, <<"4">>},
                              x \in {<<"1">>, <<"3">>, <<"x">>}}
    IN  full \cup {SubSeq(r, 1, 4) : r \in full}
             \cup {r \o << <<"z">> >> : r \in full}
             \cup {<< <<"R">>, <<".">> >>}

InitRead ==
    /\ pc = "start"
    /\ op = "readCorrectionPatterns"
    /\ board \in {[footprints |-> <<Footprint("R1", l, F_Cu, FALSE)>>,
                   auxOrigin |-> <<0, 0>>] : l \in {LibR, LibC}}
    /\ correctionFields = <<>>
    /\ posFilter = Refs
    /\ bom = None
    /\ correctionFile \in
           {Some([has_header |-> h, rows |-> rs]) :
               h \in BOOLEAN, rs \in SeqsUpTo(Rows, MaxRows) \ {<<>>}}
    /\ compensation = <<0, 0, 0>>
    /\ result = Ok(<<>>)

ReadCorrectionPatterns ==
    /\ pc = "start"
    /\ op = "readCorrectionPatterns"
    /\ result' = readCorrectionPatterns(correctionFile[1])
    /\ pc' = "loaded"
    /\ UNCHANGED <<op, board, correctionFields, posFilter, bom,
                   correctionFile, compensation>>

ApplyCorrectionPattern ==
    /\ pc = "loaded"
    /\ result.ok
    /\ compensation' = applyCorrectionPattern(result.val, board.footprints[1])
    /\ pc' = "done"
    /\ UNCHANGED <<op, board, correctionFields, posFilter, bom,
                   correctionFile, result>>

NextRead == ReadCorrectionPatterns \/ ApplyCorrectionPattern

SpecRead == InitRead /\ [][NextRead]_vars

(***************************************************************************)
(* SpecGeom: footprintOrientation over any orientation and rotation, and   *)
(* defaultFootprintX, defaultFootprintY over quarter-turn orientations     *)
(***************************************************************************)
Rotations == {-361, -360, -90, -1, 0, 1, 90, 359, 360, 361}

InitGeom ==
    /\ pc = "start"
    /\ \/ /\ op = "footprintOrientation"
          /\ \E o \in (0 - MaxOrient)..MaxOrient :
                board = [footprints |->
                             <<[Footprint("R1", LibR, F_Cu, FALSE)
                                   EXCEPT !.orient = o]>>,
                         auxOrigin |-> <<0, 0>>]
          /\ compensation \in {<<0, 0, r>> : r \in Rotations}
       \/ /\ op = "footprintPosition"
          /\ \E q \in (0 - MaxQuarterTurns)..MaxQuarterTurns,
                px \in {0, 10}, py \in {-3, 5}, origin \in {<<0, 0>>, <<1, 2>>} :
                board = [footprints |->
                             <<[Footprint("R1", LibR, F_Cu, FALSE)
                                   EXCEPT !.orient = 900 * q,
                                          !.pos = <<fromMm(px + origin[1]),
                                                    fromMm(py + origin[2])>>]>>,
                         auxOrigin |-> <<fromMm(origin[1]), fromMm(origin[2])>>]
          /\ compensation \in {<<dx, dy, 90>> :
                                  dx \in (0 - MaxOffset)..MaxOffset,
                                  dy \in (0 - MaxOffset)..MaxOffset}
    /\ correctionFields = <<>>
    /\ posFilter = Refs
    /\ bom = None
    /\ correctionFile = None
    /\ result = Ok(<<>>)

FootprintOrientation ==
    /\ pc = "start"
    /\ op = "footprintOrientation"
    /\ result' = Ok(footprintOrientation(board.footprints[1], compensation))
    /\ pc' = "done"
    /\ UNCHANGED <<op, board, correctionFields, posFilter, bom,
                   correctionFile, compensation>>

FootprintXY ==
    /\ pc = "start"
    /\ op = "footprintPosition"
    /\ result' = Ok(<<defaultFootprintX(board.footprints[1], board.auxOrigin,
                                        compensation),
                      defaultFootprintY(board.footprints[1], board.auxOrigin,
                                        compensation)>>)
    /\ pc' = "done"
    /\ UNCHANGED <<op, board, correctionFields, posFilter, bom,
                   correctionFile, compensation>>

NextGeom == FootprintOrientation \/ FootprintXY

SpecGeom == InitGeom /\ [][NextGeom]_vars

(***************************************************************************)
(* Vocabulary of the properties, stated on the inputs of the call          *)
(***************************************************************************)
Collected == pc = "done" /\ op = "collectPosData"

BomEntries == IF bom = None THEN <<>> ELSE bom[1]
BomKeys == {BomEntries[i].reference : i \in 1..Len(BomEntries)}

\* the BOM entry of a reference: the last one listed for it
EntryOf(r) ==
    LET last == CHOOSE i \in 1..Len(BomEntries) :
                    /\ BomEntries[i].reference = r
                    /\ \A j \in 1..Len(BomEntries) :
                           BomEntries[j].reference = r => j <= i
    IN  BomEntries[last]

OnCopper(f) == f.layer \in {F_Cu, B_Cu}

\* non-virtual, in the BOM, accepted by the predicate
Eligible(f) == ~f.virtual /\ f.ref \in BomKeys /\ f.ref \in posFilter
EligibleSeq == SelectSeq(board.footprints, Eligible)

CountRecords(r) ==
    Cardinality({i \in 1..Len(result.val) : result.val[i].ref = r})
CountFootprints(r, P(_)) ==
    Cardinality({i \in 1..Len(board.footprints) :
                    board.footprints[i].ref = r /\ P(board.footprints[i])})

\* "<float>;<float>;<float>"
WellFormed(s) ==
    \E i, j \in 1..Len(s) :
        /\ i < j /\ s[i] = ";" /\ s[j] = ";"
        /\ \A k \in 1..Len(s) : s[k] = ";" => k \in {i, j}
        /\ isFloat(SubSeq(s, 1, i - 1))
        /\ isFloat(SubSeq(s, i + 1, j - 1))
        /\ isFloat(SubSeq(s, j + 1, Len(s)))

Parsed(s) ==
    LET i == CHOOSE k \in 1..Len(s) : s[k] = ";" /\ \A m \in 1..(k - 1) : s[m] # ";"
        j == CHOOSE k \in 1..Len(s) : s[k] = ";" /\ k > i
    IN  <<float(SubSeq(s, 1, i - 1)).val, float(SubSeq(s, i + 1, j - 1)).val,
          float(SubSeq(s, j + 1, Len(s))).val>>

\* the listed fields the entry has, and those it has with a value
Existing(e) ==
    {i \in 1..Len(correctionFields) : correctionFields[i] \in DOMAIN e.fields}
NonEmpty(e) ==
    {i \in Existing(e) : e.fields[correctionFields[i]] # <<>>}
Least(S) == CHOOSE i \in S : \A j \in S : i <= j
ValueAt(e, i) == e.fields[correctionFields[i]]

\* the entry's first existing listed field has a value that is not
\* "<float>;<float>;<float>"
OverrideFails(f) ==
    LET e == EntryOf(f.ref)
    IN  /\ Existing(e) # {}
        /\ ValueAt(e, Least(Existing(e))) # <<>>
        /\ ~WellFormed(ValueAt(e, Least(Existing(e))))

\* the correction of the table of PatternFile, whose one rule is "R"
TableCorrection(f) ==
    IF correctionFile # None /\ Head(f.libId) = "R"
    THEN <<5, -6, 7>> ELSE <<0, 0, 0>>

\* the record of footprint f under compensation c
RecordWith(f, c) ==
    [ref |-> f.ref,
     x |-> defaultFootprintX(f, board.auxOrigin, c),
     y |-> defaultFootprintY(f, board.auxOrigin, c),
     side |-> IF f.layer = F_Cu THEN "T" ELSE "B",
     rot |-> footprintOrientation(f, c)]

Returned == Collected /\ result.ok /\ Len(result.val) = Len(EligibleSeq)

(***************************************************************************)
(* C1: the explicit override wins over a matching pattern                  *)
(***************************************************************************)
\* C1 as stated: whenever collectPosData returns, a footprint whose BOM
\* entry has some non-empty well-formed field named in correctionFields is
\* reported with the parsed value of such a field as its compensation.
C1_AnyNonEmptyFieldWins ==
    Returned =>
        \A i \in 1..Len(EligibleSeq) :
            LET f == EligibleSeq[i]
                e == EntryOf(f.ref)
                good == {k \in NonEmpty(e) : WellFormed(ValueAt(e, k))}
            IN  good # {} =>
                    \E k \in good :
                        result.val[i] = RecordWith(f, Parsed(ValueAt(e, k)))

\* C1 amended: whenever collectPosData returns, a footprint whose first
\* existing field of correctionFields is non-empty and well-formed is
\* reported with the parsed value of that field as its compensation for X,
\* Y and rotation, whether or not a pattern of the table matches it.
C1_FirstExistingFieldWins ==
    Returned =>
        \A i \in 1..Len(EligibleSeq) :
            LET f == EligibleSeq[i]
                e == EntryOf(f.ref)
            IN  (/\ Existing(e) # {}
                 /\ ValueAt(e, Least(Existing(e))) # <<>>
                 /\ WellFormed(ValueAt(e, Least(Existing(e)))))
                => result.val[i] =
                       RecordWith(f, Parsed(ValueAt(e, Least(Existing(e)))))

\* a returned record of a footprint that the table's rule matches and whose
\* override is taken from its BOM field
C1_Witness ==
    /\ Returned
    /\ \E i \in 1..Len(EligibleSeq) :
           LET f == EligibleSeq[i]
               e == EntryOf(f.ref)
           IN  /\ TableCorrection(f) = <<5, -6, 7>>
               /\ Existing(e) # {}
               /\ ValueAt(e, Least(Existing(e))) = Good123
               /\ result.val[i] = RecordWith(f, <<1, 2, 3>>)

(***************************************************************************)
(* C2: the scan of correctionFields                                        *)
(***************************************************************************)
\* C2 as stated: whenever collectPosData returns, the compensation of a
\* footprint is the parsed value of the first listed field that exists and
\* is non-empty, also when an earlier listed field exists and is empty.
C2_FirstNonEmptyFieldUsed ==
    Returned =>
        \A i \in 1..Len(EligibleSeq) :
            LET f == EligibleSeq[i]
                e == EntryOf(f.ref)
            IN  (NonEmpty(e) # {} /\ WellFormed(ValueAt(e, Least(NonEmpty(e)))))
                => result.val[i] =
                       RecordWith(f, Parsed(ValueAt(e, Least(NonEmpty(e)))))

\* C2 amended: whenever collectPosData returns, the compensation of a
\* footprint is decided by the first listed field that exists: its parsed
\* value when it is non-empty, and the correction of the pattern table (zero
\* without a matching rule) when it is empty or no listed field exists;
\* fields listed after the first existing one are never read.
C2_FirstExistingFieldDecides ==
    Returned =>
        \A i \in 1..Len(EligibleSeq) :
            LET f == EligibleSeq[i]
                e == EntryOf(f.ref)
                empty == \/ Existing(e) = {}
                         \/ ValueAt(e, Least(Existing(e))) = <<>>
            IN  result.val[i] =
                    RecordWith(f, IF empty THEN TableCorrection(f)
                                  ELSE Parsed(ValueAt(e, Least(Existing(e)))))

\* a returned record of a footprint whose first listed field is empty and
\* whose second listed field has a value: the table's correction is used
C2_Witness ==
    /\ Returned
    /\ Len(correctionFields) = 2
    /\ \E i \in 1..Len(EligibleSeq) :
           LET f == EligibleSeq[i]
               e == EntryOf(f.ref)
           IN  /\ Existing(e) = {1, 2}
               /\ ValueAt(e, 1) = <<>>
               /\ ValueAt(e, 2) = Good456
               /\ result.val[i] = RecordWith(f, TableCorrection(f))
               /\ result.val[i] # RecordWith(f, <<4, 5, 6>>)

(***************************************************************************)
(* C3: no BOM, no filtering by reference                                   *)
(***************************************************************************)
\* C3: called without a BOM or with an empty one, collectPosData returns a
\* record for every non-virtual footprint the predicate accepts (the
\* footprints being on copper layers).
C3_EmptyBomKeepsAll ==
    (/\ Collected
     /\ BomEntries = <<>>
     /\ \A i \in 1..Len(board.footprints) : OnCopper(board.footprints[i]))
    => /\ result.ok
       /\ \A r \in Refs :
              CountRecords(r) =
                  CountFootprints(r, LAMBDA f : ~f.virtual /\ f.ref \in posFilter)

(***************************************************************************)
(* C4: which footprints are reported under a BOM                           *)
(***************************************************************************)
\* C4: with a non-empty BOM, what collectPosData returns has exactly one
\* record for each footprint that is non-virtual, has its reference in the
\* BOM and is accepted by the predicate, and no other record; a virtual
\* footprint has none.
C4_InclusionRule ==
    (Collected /\ result.ok /\ BomEntries # <<>>) =>
        /\ Len(result.val) = Len(EligibleSeq)
        /\ \A r \in Refs : CountRecords(r) = CountFootprints(r, Eligible)
        /\ \A i \in 1..Len(result.val) : result.val[i].ref \in Refs

\* a board with a virtual footprint that is in the BOM and accepted, next
\* to a reported one
C4_Witness ==
    /\ Collected /\ result.ok /\ BomEntries # <<>>
    /\ Len(result.val) = 1
    /\ \E i \in 1..Len(board.footprints) :
           LET f == board.footprints[i]
           IN  f.virtual /\ f.ref \in BomKeys /\ f.ref \in posFilter
    /\ \E i \in 1..Len(board.footprints) : Eligible(board.footprints[i])

(***************************************************************************)
(* C5: a malformed override                                                *)
(***************************************************************************)
\* C5: if the selected correction field of a retained footprint is not
\* three semicolon-separated floats, collectPosData raises FormatError
\* naming the designator and the raw value of the first such footprint, and
\* returns no record.
C5_MalformedIsFormatError ==
    (/\ Collected
     /\ \A i \in 1..Len(EligibleSeq) : OnCopper(EligibleSeq[i])
     /\ \E i \in 1..Len(EligibleSeq) : OverrideFails(EligibleSeq[i]))
    => LET f == EligibleSeq[Least({i \in 1..Len(EligibleSeq) :
                                      OverrideFails(EligibleSeq[i])})]
           e == EntryOf(f.ref)
       IN  /\ ~result.ok
           /\ result.val = <<>>
           /\ result.exc.type = "FormatError"
           /\ result.exc.designator = f.ref
           /\ result.exc.value = ValueAt(e, Least(Existing(e)))

(***************************************************************************)
(* C6: rows of the correction table                                        *)
(***************************************************************************)
\* the rows readCorrectionPatterns reads as data
DataRows ==
    LET file == correctionFile[1]
    IN  IF file.has_header THEN Tail(file.rows) ELSE file.rows

Loaded == op = "readCorrectionPatterns" /\ pc \in {"loaded", "done"}

GoodRow(row) ==
    Len(row) = 5 /\ isFloat(row[3]) /\ isFloat(row[4]) /\ isFloat(row[5])

\* C6: a data row with fewer or more than 5 columns, or with a non-numeric
\* x, y or rotation, makes readCorrectionPatterns fail with FormatError and
\* return no pattern list.
C6_BadRowIsFormatError ==
    (Loaded /\ \E i \in 1..Len(DataRows) : ~GoodRow(DataRows[i]))
    => ~result.ok /\ result.exc.type = "FormatError"

(***************************************************************************)
(* C7: the first matching rule, in file order                              *)
(***************************************************************************)
\* C7: readCorrectionPatterns returns one rule per data row, in the order
\* of the file; applyCorrectionPattern returns the correction of the
\* matching rule of lowest index, and (0,0,0) when no rule matches.
C7_FirstMatchInFileOrder ==
    /\ (Loaded /\ result.ok) =>
           /\ Len(result.val) = Len(DataRows)
           /\ \A i \in 1..Len(DataRows) :
                  /\ result.val[i].footprint = DataRows[i][1]
                  /\ result.val[i].x_correction = float(DataRows[i][3]).val
                  /\ result.val[i].y_correction = float(DataRows[i][4]).val
                  /\ result.val[i].rotation = float(DataRows[i][5]).val
    /\ (Loaded /\ pc = "done") =>
           LET name == board.footprints[1].libId
               hits == {i \in 1..Len(DataRows) : reMatch(DataRows[i][1], name)}
           IN  IF hits = {} THEN compensation = <<0, 0, 0>>
               ELSE compensation = <<float(DataRows[Least(hits)][3]).val,
                                     float(DataRows[Least(hits)][4]).val,
                                     float(DataRows[Least(hits)][5]).val>>

\* two rules with different corrections both match the footprint and the
\* earlier one is applied
C7_Witness ==
    /\ Loaded /\ pc = "done"
    /\ Len(DataRows) = 2
    /\ reMatch(DataRows[1][1], board.footprints[1].libId)
    /\ reMatch(DataRows[2][1], board.footprints[1].libId)
    /\ DataRows[1][3] = <<"3">> /\ DataRows[2][3] = <<"1">>
    /\ compensation = <<3, -2, 9>>

(***************************************************************************)
(* C8: the side of a record                                                *)
(***************************************************************************)
BadLayer == {i \in 1..Len(EligibleSeq) : ~OnCopper(EligibleSeq[i])}

SidesFollowLayers ==
    (Collected /\ result.ok) =>
        /\ Len(result.val) = Len(EligibleSeq)
        /\ \A i \in 1..Len(result.val) :
               /\ result.val[i].side \in {"T", "B"}
               /\ EligibleSeq[i].layer = F_Cu => result.val[i].side = "T"
               /\ EligibleSeq[i].layer = B_Cu => result.val[i].side = "B"

\* C8 as stated: every returned record has side "T" on front copper and
\* "B" on back copper; a retained footprint on another layer makes
\* collectPosData raise RuntimeError and return no record.
C8_OtherLayerIsRuntimeError ==
    /\ SidesFollowLayers
    /\ (Collected /\ BadLayer # {}) =>
           /\ ~result.ok
           /\ result.val = <<>>
           /\ result.exc.type = "RuntimeError"

\* C8 amended: every returned record has side "T" on front copper and "B"
\* on back copper; a retained footprint on another layer makes
\* collectPosData raise and return no record, and what it raises is
\* RuntimeError unless the override of that footprint or of a retained
\* footprint before it is malformed (that error is raised first).
C8_OtherLayerRaises ==
    /\ SidesFollowLayers
    /\ (Collected /\ BadLayer # {}) =>
           /\ ~result.ok
           /\ result.val = <<>>
           /\ (\A j \in 1..Least(BadLayer) : ~OverrideFails(EligibleSeq[j]))
              => result.exc.type = "RuntimeError"

\* a footprint on back copper followed by one on an inner layer: the call
\* raises RuntimeError
C8_Witness ==
    /\ Collected
    /\ Len(EligibleSeq) = 2
    /\ EligibleSeq[1].layer = B_Cu
    /\ EligibleSeq[2].layer = In1_Cu
    /\ ~result.ok /\ result.exc.type = "RuntimeError"

C10_LocalFrameOffset ==
    (pc = "done" /\ op = "footprintPosition") =>
        LET f == board.footprints[1]
            px == (f.pos[1] - board.auxOrigin[1]) \div 1000000
            py == (f.pos[2] - board.auxOrigin[2]) \div 1000000
            dx == compensation[1]
            dy == compensation[2]
            q == ((f.orient \div 900) + 8) % 4
            X == result.val[1]
            Y == result.val[2]
        IN  /\ q = 0 => X = px + dx /\ Y = 0 - (py + dy)
            /\ q = 1 => X = px + dy /\ Y = 0 - (py - dx)
            /\ q = 2 => X = px - dx /\ Y = 0 - (py - dy)
            /\ q = 3 => X = px - dy /\ Y = 0 - (py + dx)
            /\ (dx = 0 /\ dy = 0) => X = px /\ Y = 0 - py
            /\ (px = 10 /\ py = 5 /\ f.orient = 0 /\ dx = 1 /\ dy = 0)
               => X = 11 /\ Y = -5
            /\ (f.orient = 900 /\ dx = 1 /\ dy = 2)
               => X = px + 2 /\ Y = 0 - (py - 1)

\* compensation (1,2) on a footprint at 90 degrees and (10,5)
C10_Witness ==
    /\ pc = "done" /\ op = "footprintPosition"
    /\ board.footprints[1].orient = 900
    /\ board.auxOrigin = <<fromMm(1), fromMm(2)>>
    /\ board.footprints[1].pos = <<fromMm(11), fromMm(7)>>
    /\ compensation = <<1, 2, 90>>
    /\ result.val = <<12, -4>>

====
